---------------------------- MODULE Spec2Model ----------------------------
(***************************************************************************)
(* Bracket resolution engine of src/bracket.py: the binary tree of Events, *)
(* the per-Event update (against-the-spread winner, propagation to the     *)
(* parent), the spread lookup with its cache, the one-shot backfill and    *)
(* the polling loop.                                                       *)
(*                                                                         *)
(* Objects are held in arenas.  An Event is a record of the sequence       *)
(* `events`; a reference to an Event (left, right, _parent, an entry of    *)
(* _events_to_process) is its index in that sequence, which is the order   *)
(* of allocation and is independent of the event_id field the code writes. *)
(* A Participant is a number, and `team` maps it to the Team it currently  *)
(* refers to.  A Team is a number t; its code_name and its odds_api_name   *)
(* are two different identifiers computed from t.  Python's None is None   *)
(* for references and scalars, NoSpread for the spread dictionary.         *)
(***************************************************************************)
EXTENDS Integers, Sequences, FiniteSets, TLC

\* ------------------------------------------------------------------ bounds
\* Number of rounds of the bracket the engine is run on (2^NRounds participants).
NRounds == 2
\* Longest participant list handed to the constructor in SpecBuild.
MaxParticipants == 16
\* Highest score of one side in a feed record.
MaxScore == 1
\* Largest absolute point value a bookmaker reports.
MaxPoint == 1
\* Most bookmakers in one odds record.
MaxBookmakers == 1
\* Number of passes over the events (the backfill, a poll iteration) after
\* which the model starts no new one.
MaxPasses == 2
\* Number of queries of the odds feed after which the model makes no new one.
MaxOddsCalls == 3

\* Number of poll passes with obliging feeds that follow the passes counted by
\* MaxPasses in SpecGood.
MaxGoodPasses == 1

\* ---------------------------------------------------------------- constants
\* The turns of the sleep loop of process_indefinitely, one second each
SleepTicks == 60

\* ------------------------------------------------------- values and helpers
\* Python's None, for an absent reference, code or timestamp.
None == 0
\* Event.spread = None
NoSpread == << >>

\* The element of a one-element set.  Only({F(x) : x \in {v}}) is F(v) with v
\* evaluated once.
Only(s) == CHOOSE x \in s : TRUE

RECURSIVE Pow2(_)
Pow2(n) == IF n = 0 THEN 1 ELSE 2 * Pow2(n - 1)

\* math.log2(n).is_integer(), for n >= 1
IsPowerOfTwo(n) == \E k \in 0..n : Pow2(k) = n

\* int(math.log2(n)) for a power of two n
Log2(n) == CHOOSE k \in 0..n : Pow2(k) = n

\* Team.code_name: the short code that matches score records
code_name(t) == t
\* Team.odds_api_name: the name that matches odds records
odds_api_name(t) == 100 + t

\* ------------------------------------------------------------ construction
\* Event(**kwargs) with the field defaults of the class, _parent = None
NewEvent(round, event_id, home, away, left, right) ==
    [ round |-> round, event_id |-> event_id,
      home_participant |-> home, away_participant |-> away,
      left |-> left, right |-> right,
      spread |-> NoSpread, spread_final |-> FALSE,
      status |-> "TBD", team_to_score |-> << >>,
      is_complete |-> FALSE,
      winning_participant |-> None, winning_team_code |-> None,
      estimated_start_time |-> None,
      parent |-> None ]

\* Event.first_round_event
first_round_event(event_id, home_participant, away_participant) ==
    NewEvent(1, event_id, home_participant, away_participant, None, None)

\* Event.from_children: left and right are references into the arena `heap`
from_children(heap, event_id, left, right) ==
    NewEvent(heap[left].round + 1, event_id, None, None, left, right)

\* FirstRoundEvents with the pair (k, k+1) in place of (2k-1, 2k)
FirstRoundEvents_overlap(ps) ==
    [ k \in 1..(Len(ps) \div 2) |->
        first_round_event((k - 1) + 1, ps[k], ps[k + 1]) ]

\* The first loop of Bracket.__init__: one round-1 Event per pair of
\* consecutive participants; enumerate() counts event_number from 0 and
\* i = 2 * event_number (0-based), so the 1-based positions are 2k-1 and 2k.
FirstRoundEvents(ps) ==
    [ k \in 1..(Len(ps) \div 2) |->
        first_round_event((k - 1) + 1, ps[2 * k - 1], ps[2 * k]) ]

\* One pass of the while loop of connect_bracket over events_in_round (a
\* sequence of references): the parents it allocates, in allocation order.
\* The k-th parent is created when event_number has been incremented k-1 times.
NextRoundParents(heap, events_in_round, event_number) ==
    [ k \in 1..(Len(events_in_round) \div 2) |->
        from_children(heap, (event_number + (k - 1)) + 1,
                      events_in_round[2 * k - 1], events_in_round[2 * k]) ]

\* SetParents giving the j-th Event of the round the j-th parent
SetParents_shifted(heap, events_in_round) ==
    [ i \in 1..Len(heap) |->
        IF \E j \in 1..Len(events_in_round) : events_in_round[j] = i
        THEN LET j == CHOOSE j \in 1..Len(events_in_round) : events_in_round[j] = i
             IN  [heap[i] EXCEPT !.parent = Len(heap) + ((j + 2) \div 2)]
        ELSE heap[i] ]

\* left._parent = parent_event; right._parent = parent_event, for every parent
\* allocated in this pass (the k-th one gets reference Len(heap) + k)
SetParents(heap, events_in_round) ==
    [ i \in 1..Len(heap) |->
        IF \E j \in 1..Len(events_in_round) : events_in_round[j] = i
        THEN LET j == CHOOSE j \in 1..Len(events_in_round) : events_in_round[j] = i
             IN  [heap[i] EXCEPT !.parent = Len(heap) + ((j + 1) \div 2)]
        ELSE heap[i] ]

\* Bracket.connect_bracket.  c is the loop state: the arena, events_in_round,
\* all_events and event_number.  The result is the arena, the deque
\* all_events + events_in_round and whether an assertion failed.
RECURSIVE connect_loop(_)
connect_loop(c) ==
    IF Len(c.events_in_round) > 1
    THEN IF Len(c.events_in_round) % 2 # 0
         THEN [heap |-> c.heap, order |-> << >>, raised |-> TRUE]
         ELSE Only({connect_loop(next) : next \in
                {[ heap |-> SetParents(c.heap, c.events_in_round)
                              \o NextRoundParents(c.heap, c.events_in_round, c.event_number),
                   events_in_round |-> [k \in 1..(Len(c.events_in_round) \div 2) |->
                                          Len(c.heap) + k],
                   all_events |-> c.all_events \o c.events_in_round,
                   event_number |-> c.event_number + (Len(c.events_in_round) \div 2) ]}})
    ELSE IF Len(c.events_in_round) # 1
         THEN [heap |-> c.heap, order |-> << >>, raised |-> TRUE]
         ELSE [heap |-> c.heap, order |-> c.all_events \o c.events_in_round,
               raised |-> FALSE]

connect_bracket(initial_ordered_events) ==
    Only({connect_loop(c) : c \in
           {[ heap |-> initial_ordered_events,
              events_in_round |-> [k \in 1..Len(initial_ordered_events) |-> k],
              all_events |-> << >>,
              event_number |-> Len(initial_ordered_events) ]}})

\* Bracket.__init__ up to super().__init__: the validation, the round-1
\* Events, connect_bracket and the assertions on its result.
\* math.log2(0) raises ValueError before the first assert is evaluated.
BracketInit(ps) ==
    LET n == Len(ps)
        failed(kind) == [error |-> kind, heap |-> << >>, order |-> << >>,
                         n_rounds |-> 0, n_unique_events |-> 0, bracket_root |-> None]
    IN  IF n = 0 THEN failed("ValueError")
        ELSE IF ~IsPowerOfTwo(n) THEN failed("AssertionError")
        ELSE IF ~(n >= 4) THEN failed("AssertionError")
        ELSE Only({
          IF built.raised THEN failed("AssertionError")
          ELSE IF \E i \in 1..Len(built.order) : built.heap[built.order[i]].event_id # i
               THEN failed("AssertionError")
          ELSE IF Len(built.order) # Pow2(Log2(n)) - 1 THEN failed("AssertionError")
          ELSE [ error |-> "none", heap |-> built.heap, order |-> built.order,
                 n_rounds |-> Log2(n), n_unique_events |-> Len(built.order),
                 bracket_root |-> built.order[Len(built.order)] ]
          : built \in {connect_bracket(FirstRoundEvents(ps))}})


\* ------------------------------------------------------------------- state
VARIABLES
    participants,           \* the list handed to Bracket.__init__
    bracket,                \* the result of construction: error, n_rounds, n_unique_events, bracket_root
    events,                 \* the arena of Event objects
    team,                   \* Participant.team, per participant
    events_to_process,      \* Bracket._events_to_process: a deque of Event references
    calls_to_espn,
    calls_to_odds_api,
    successfully_updating,
    last_successful_update,
    last_attempted_update,
    cache_spread,           \* Bracket._cache_spread
    matchup_to_spread,      \* Bracket._matchup_to_spread
    stop_event,             \* Bracket._stop_event
    pc,                     \* where the caller and the update thread are
    determined_events,      \* the queue of pre_populate_events
    scan_pos,               \* position of the for loop of process_indefinitely in the deque
    events_to_remove,       \* the list of that name in process_indefinitely
    clock,                  \* datetime.now(), counted in passes over the events
    ticks,                  \* turns of the sleep loop of process_indefinitely made so far
    fetch_error,            \* what get_score_data raised in the current iteration, or "none"
    spread_file             \* SPREAD_CACHE_FILE: whether it exists, and the dictionary pickled in it

vars == << participants, bracket, events, team, events_to_process, calls_to_espn,
           calls_to_odds_api, successfully_updating, last_successful_update,
           last_attempted_update, cache_spread, matchup_to_spread, stop_event, pc,
           determined_events, scan_pos, events_to_remove, clock, ticks, fetch_error,
           spread_file >>

\* The part of the state that Event.update and Bracket.set_event_spread work on.
Heap == [ events |-> events, team |-> team,
          calls_to_odds_api |-> calls_to_odds_api,
          matchup_to_spread |-> matchup_to_spread,
          spread_file |-> spread_file ]

\* ------------------------------------------------------------------ Event
\* Event.matchup_determined
matchup_determined(S, e) ==
    S.events[e].home_participant # None /\ S.events[e].away_participant # None

\* Event.matchup_tuple: tuple(sorted([home code, away code]))
matchup_tuple(S, e) ==
    LET home_team_code == code_name(S.team[S.events[e].home_participant])
        away_team_code == code_name(S.team[S.events[e].away_participant])
    IN  IF home_team_code <= away_team_code
        THEN << home_team_code, away_team_code >>
        ELSE << away_team_code, home_team_code >>

\* ats_side with a push given to the home side whatever the spread
ats_side_push_home(home_score, home_score_delta, away_score) ==
    IF (home_score + home_score_delta) >= away_score THEN "home" ELSE "away"

\* The comparison of Event.determine_winning_participant on its three numbers:
\* which side it returns.
ats_side(home_score, home_score_delta, away_score) ==
    IF (home_score + home_score_delta) > away_score THEN "home"
    ELSE IF (home_score + home_score_delta) < away_score THEN "away"
    ELSE IF home_score_delta > 0 THEN "home" ELSE "away"

\* Event.determine_winning_participant raises when the spread is None
\* (TypeError) or a dictionary lacks the key it is read with (KeyError).
determine_raises(S, e) ==
    LET ev == S.events[e]
        home_team == S.team[ev.home_participant]
        away_team == S.team[ev.away_participant]
    IN  \/ code_name(home_team) \notin DOMAIN ev.team_to_score
        \/ ev.spread = NoSpread
        \/ odds_api_name(home_team) \notin DOMAIN ev.spread
        \/ code_name(away_team) \notin DOMAIN ev.team_to_score

\* Event.determine_winning_participant
determine_winning_participant(S, e) ==
    LET ev == S.events[e]
        home_score == ev.team_to_score[code_name(S.team[ev.home_participant])]
        home_score_delta == ev.spread[odds_api_name(S.team[ev.home_participant])]
        away_score == ev.team_to_score[code_name(S.team[ev.away_participant])]
    IN  IF ats_side(home_score, home_score_delta, away_score) = "home"
        THEN ev.home_participant
        ELSE ev.away_participant

\* update_from_child handing on the child's home participant, not its winner
update_from_child_home(S, p, c) ==
    IF c = S.events[p].left
    THEN [S EXCEPT !.events[p].home_participant = S.events[c].home_participant]
    ELSE [S EXCEPT !.events[p].away_participant = S.events[c].home_participant]

\* Event.update_from_child, called on the parent p of child c
update_from_child(S, p, c) ==
    IF c = S.events[p].left
    THEN [S EXCEPT !.events[p].home_participant = S.events[c].winning_participant]
    ELSE [S EXCEPT !.events[p].away_participant = S.events[c].winning_participant]

\* update_from_child raises when one of its assertions fails
update_from_child_raises(S, p, c) ==
    \/ S.events[c].winning_participant = None
    \/ c # S.events[p].left /\ c # S.events[p].right

\* The winner flag of a feed record as Event.update reads it: the code of the
\* last competitor whose 'winner' entry is present and true, else None.
record_winning_team_code(rec) ==
    IF rec.competitors[2].winner = "true" THEN rec.competitors[2].abbreviation
    ELSE IF rec.competitors[1].winner = "true" THEN rec.competitors[1].abbreviation
    ELSE None

\* The dictionary team_to_score built by the loop of Event.update
record_team_to_score(rec) ==
    [ c \in {rec.competitors[1].abbreviation, rec.competitors[2].abbreviation} |->
        IF c = rec.competitors[2].abbreviation
        THEN rec.competitors[2].score ELSE rec.competitors[1].score ]

\* update_complete that gives the winner the other side's team whatever the
\* feed flagged
update_complete_reassign(S, e, winning_team_code) ==
    LET ev == S.events[e]
        winner == determine_winning_participant(S, e)
        losing_team == IF winner = ev.away_participant
                       THEN S.team[ev.home_participant]
                       ELSE S.team[ev.away_participant]
    IN  Only({
          IF ev.parent = None THEN [S |-> S6, raised |-> FALSE]
          ELSE IF update_from_child_raises(S6, ev.parent, e)
               THEN [S |-> S6, raised |-> TRUE]
               ELSE [S |-> update_from_child(S6, ev.parent, e), raised |-> FALSE]
          : S6 \in {[S EXCEPT
                       !.events[e].winning_participant = winner,
                       !.team[winner] = losing_team,
                       !.events[e].winning_team_code = winning_team_code]}})

\* Lines 138-145 of Event.update, run when the record is complete and
\* determine_winning_participant does not raise: the winner, the winner's
\* team, winning_team_code, the parent.
update_complete(S, e, winning_team_code) ==
    LET ev == S.events[e]
        winner == determine_winning_participant(S, e)
        losing_team == IF winner = ev.away_participant
                       THEN S.team[ev.home_participant]
                       ELSE S.team[ev.away_participant]
    IN  Only({
          IF ev.parent = None THEN [S |-> S6, raised |-> FALSE]
          ELSE IF update_from_child_raises(S6, ev.parent, e)
               THEN [S |-> S6, raised |-> TRUE]
               ELSE [S |-> update_from_child(S6, ev.parent, e), raised |-> FALSE]
          : S6 \in {[S EXCEPT
                       !.events[e].winning_participant = winner,
                       !.team[winner] = IF code_name(@) # winning_team_code
                                        THEN losing_team ELSE @,
                       !.events[e].winning_team_code = winning_team_code]}})

\* update that, when it raises, has written the record's status to the parent
update_eager(S, e, rec) ==
    Only({
      IF ~rec.completed THEN [S |-> S3, raised |-> FALSE]
      ELSE IF determine_raises(S3, e)
           THEN [S |-> IF S3.events[e].parent # None
                       THEN [S3 EXCEPT !.events[S3.events[e].parent].status = rec.status]
                       ELSE S3,
                 raised |-> TRUE]
      ELSE update_complete(S3, e, IF rec.has_competitions
                                  THEN record_winning_team_code(rec) ELSE None)
      : S3 \in {[S EXCEPT
                   !.events[e].status = rec.status,
                   !.events[e].estimated_start_time = rec.date,
                   !.events[e].team_to_score = IF rec.has_competitions
                                               THEN record_team_to_score(rec) ELSE @,
                   !.events[e].is_complete = rec.completed]}})

\* Event.update(api_event_data): the state it leaves and whether it raised.
\* The assignments made before an exception stay.
update(S, e, rec) ==
    Only({
      IF ~rec.completed THEN [S |-> S3, raised |-> FALSE]
      ELSE IF determine_raises(S3, e) THEN [S |-> S3, raised |-> TRUE]
      ELSE update_complete(S3, e, IF rec.has_competitions
                                  THEN record_winning_team_code(rec) ELSE None)
      : S3 \in {[S EXCEPT
                   !.events[e].status = rec.status,
                   !.events[e].estimated_start_time = rec.date,
                   !.events[e].team_to_score = IF rec.has_competitions
                                               THEN record_team_to_score(rec) ELSE @,
                   !.events[e].is_complete = rec.completed]}})

\* --------------------------------------------------------- spread resolver
\* team_match(game, event) of Bracket.get_spread
team_match(S, e, game) ==
    LET home_name == odds_api_name(S.team[S.events[e].home_participant])
        away_name == odds_api_name(S.team[S.events[e].away_participant])
    IN  \/ game.home_team = home_name /\ game.away_team = away_name
        \/ game.away_team = home_name /\ game.home_team = away_name

\* statistics.mode: the most common value, the first encountered among equals
mode(xs) ==
    LET count(v) == Cardinality({i \in 1..Len(xs) : xs[i] = v})
        best == CHOOSE i \in 1..Len(xs) :
                   /\ \A j \in 1..Len(xs) : count(xs[j]) <= count(xs[i])
                   /\ \A j \in 1..(i - 1) : count(xs[j]) < count(xs[i])
    IN  xs[best]

\* spread_mode(spreads) of Bracket.get_spread; in a dictionary display a
\* repeated key keeps the later value
spread_mode(spreads) ==
    LET spread_point_outcomes == [i \in 1..Len(spreads) |-> spreads[i].outcomes[1].point]
        point_spread == mode(spread_point_outcomes)
    IN  (spreads[1].outcomes[2].name :> (0 - point_spread))
          @@ (spreads[1].outcomes[1].name :> point_spread)

\* The loop of Bracket.get_spread over spreads_past['data']: the markets of
\* the first game that matches the event
matching_spreads(S, e, data) ==
    IF \E i \in 1..Len(data) : team_match(S, e, data[i])
    THEN LET i == CHOOSE i \in 1..Len(data) :
                     /\ team_match(S, e, data[i])
                     /\ \A j \in 1..(i - 1) : ~team_match(S, e, data[j])
         IN  data[i].bookmakers
    ELSE << >>

\* Bracket.get_spread(event, date_str) against the response resp of the odds
\* feed: the state it leaves, the spread it returns (NoSpread for None) and
\* whether it raised.  A failed request raises before the call is counted.
get_spread(S, e, resp) ==
    IF resp.error THEN [S |-> S, spread |-> NoSpread, raised |-> TRUE]
    ELSE Only({[ S |-> [S EXCEPT !.calls_to_odds_api = @ + 1],
                 spread |-> IF Len(spreads) > 0 THEN spread_mode(spreads) ELSE NoSpread,
                 raised |-> FALSE ]
               : spreads \in {matching_spreads(S, e, resp.data)}})

\* spread_cache_hit of a resolver that never consults the cache
spread_cache_hit_never(S, e, cache) == FALSE

\* The first branch of Bracket.set_event_spread: is the spread taken from the cache
spread_cache_hit(S, e, cache) ==
    cache /\ matchup_tuple(S, e) \in DOMAIN S.matchup_to_spread

\* store_spread that writes every result to the cache, found or not, over
\* what the cache holds
store_spread_overwrite(S, e, cache, spread) ==
    [S EXCEPT
       !.events[e].spread = spread,
       !.events[e].spread_final =
           IF S.events[e].status \in {"STATUS_FINAL", "STATUS_IN_PROGRESS"}
           THEN TRUE ELSE @,
       !.matchup_to_spread =
           IF cache
           THEN [m \in DOMAIN @ \cup {matchup_tuple(S, e)} |->
                   IF m = matchup_tuple(S, e) THEN spread ELSE @[m]]
           ELSE @,
       !.spread_file =
           IF cache
           THEN [exists |-> TRUE,
                 data |-> [m \in DOMAIN S.matchup_to_spread \cup {matchup_tuple(S, e)} |->
                             IF m = matchup_tuple(S, e) THEN spread
                             ELSE S.matchup_to_spread[m]]]
           ELSE @]

\* Lines 380-391 of Bracket.set_event_spread: the spread is stored in the
\* event, marked final once the game has begun, and written to the cache,
\* which write_spreads_to_disk then pickles into the file
store_spread(S, e, cache, spread) ==
    [S EXCEPT
       !.events[e].spread = spread,
       !.events[e].spread_final =
           IF S.events[e].status \in {"STATUS_FINAL", "STATUS_IN_PROGRESS"}
           THEN TRUE ELSE @,
       !.matchup_to_spread =
           IF cache /\ matchup_tuple(S, e) \notin DOMAIN @ /\ spread # NoSpread
           THEN (matchup_tuple(S, e) :> spread) @@ @
           ELSE @,
       !.spread_file =
           IF cache /\ matchup_tuple(S, e) \notin DOMAIN S.matchup_to_spread
                    /\ spread # NoSpread
           THEN [exists |-> TRUE,
                 data |-> (matchup_tuple(S, e) :> spread) @@ S.matchup_to_spread]
           ELSE @]

\* Bracket.set_event_spread(event, date_str); cache is self._cache_spread
set_event_spread(S, e, cache, resp) ==
    Only({
      IF got.raised THEN [S |-> got.S, raised |-> TRUE]
      ELSE [S |-> store_spread(got.S, e, cache, got.spread), raised |-> FALSE]
      : got \in {IF spread_cache_hit(S, e, cache)
                 THEN [S |-> S, spread |-> S.matchup_to_spread[matchup_tuple(S, e)],
                       raised |-> FALSE]
                 ELSE get_spread(S, e, resp)}})

\* Lines 520-523: the initial spread of an event that holds none
initial_spread(S, e, cache, resp1) ==
    IF S.events[e].spread = NoSpread
    THEN set_event_spread(S, e, cache, resp1)
    ELSE [S |-> S, raised |-> FALSE]

\* process_event without the resolution that follows the record
process_event_once(S, e, cache, rec, resp1, resp2) ==
    Only({
      IF first.raised THEN first
      ELSE update(first.S, e, rec)
      : first \in {initial_spread(S, e, cache, resp1)}})

\* The body both pre_populate_events and process_indefinitely run for an
\* event whose matchup is in the fetched batch: the initial spread, the
\* update, and the spread again when the status moved to STATUS_IN_PROGRESS.
\* rec is the batch record, resp1 and resp2 the odds feed's answers.
process_event(S, e, cache, rec, resp1, resp2) ==
    Only({
      IF first.raised THEN first
      ELSE Only({
        IF upd.raised THEN upd
        ELSE IF first.S.events[e].status # upd.S.events[e].status
                /\ upd.S.events[e].status = "STATUS_IN_PROGRESS"
             THEN set_event_spread(upd.S, e, cache, resp2)
             ELSE upd
        : upd \in {update(first.S, e, rec)}})
      : first \in {initial_spread(S, e, cache, resp1)}})

\* Does process_event read the second answer of the odds feed
second_lookup(S, e, cache, rec, resp1) ==
    \E first \in {initial_spread(S, e, cache, resp1)} :
      /\ ~first.raised
      /\ rec.status = "STATUS_IN_PROGRESS"
      /\ first.S.events[e].status # "STATUS_IN_PROGRESS"
      /\ ~spread_cache_hit(first.S, e, cache)

\* ------------------------------------------------------------ feed inputs
\* One record of the score feed for the matchup <<a, b>>
FeedRecord(a, b, status, sa, sb, wa, wb, comp) ==
    [ status |-> status, completed |-> (status = "STATUS_FINAL"),
      date |-> a + b, has_competitions |-> comp,
      competitors |-> << [abbreviation |-> a, score |-> sa, winner |-> wa],
                         [abbreviation |-> b, score |-> sb, winner |-> wb] >> ]

\* The scores of a game under way, and the final scores (no tie)
LiveScores == {<<0, 1>>}
FinalScores == {x \in (0..MaxScore) \X (0..MaxScore) : x[1] # x[2]}

\* The records the score feed can hold for a matchup: scheduled (no scores
\* yet), under way (scores, no winner flag) and final (the winner flag on the
\* side that scored more, or no winner flag at all).
FeedRecords(m) ==
    {FeedRecord(m[1], m[2], "STATUS_SCHEDULED", 0, 0, "absent", "absent", FALSE)}
    \cup {FeedRecord(m[1], m[2], st, sc[1], sc[2], "absent", "absent", TRUE) :
            st \in {"STATUS_IN_PROGRESS"}, sc \in LiveScores}
    \cup {FeedRecord(m[1], m[2], "STATUS_FINAL", sc[1], sc[2],
                     IF flagged THEN (IF sc[1] > sc[2] THEN "true" ELSE "false") ELSE "absent",
                     IF flagged THEN (IF sc[2] > sc[1] THEN "true" ELSE "false") ELSE "absent",
                     TRUE) :
            sc \in FinalScores, flagged \in BOOLEAN}

\* One bookmaker's market on the game of teams h and a: the first outcome is
\* either side, with a non-zero point, and the second is the other side with
\* the opposite point.
Markets(h, a) ==
    {[outcomes |-> << [name |-> odds_api_name(n[1]), point |-> p],
                      [name |-> odds_api_name(n[2]), point |-> 0 - p] >>] :
        n \in {<<h, a>>, <<a, h>>}, p \in ((0 - MaxPoint)..MaxPoint) \ {0}}

\* Sequences of 1..n elements of the set s
RECURSIVE SeqsUpTo(_, _)
SeqsUpTo(s, n) ==
    IF n = 0 THEN {}
    ELSE {<<x>> : x \in s}
         \cup {q \o <<x>> : q \in SeqsUpTo(s, n - 1), x \in s}

\* The answers of the odds feed to a query made for event e: a failed
\* request, no game of these two teams (nothing at all, or only a game of one
\* of them against somebody else), or their game in either orientation.
OddsResponses(S, e) ==
    LET h == S.team[S.events[e].home_participant]
        a == S.team[S.events[e].away_participant]
        other == [home_team |-> odds_api_name(h), away_team |-> odds_api_name(0),
                  bookmakers |-> << >>]
    IN  {[error |-> TRUE, data |-> << >>], [error |-> FALSE, data |-> << >>],
         [error |-> FALSE, data |-> <<other>>]}
        \cup {[error |-> FALSE,
               data |-> <<other, [home_team |-> odds_api_name(t[1]),
                                  away_team |-> odds_api_name(t[2]),
                                  bookmakers |-> bs]>>] :
                t \in {<<h, a>>, <<a, h>>},
                bs \in SeqsUpTo(Markets(h, a), MaxBookmakers)}

\* RemoveAll that hands back what is left in the opposite order
RemoveAll_reversed(q, rs) ==
    Only({[i \in 1..Len(kept) |-> kept[Len(kept) + 1 - i]] :
            kept \in {SelectSeq(q, LAMBDA x : \A i \in 1..Len(rs) : rs[i] # x)}})

\* RemoveAll that removes nothing
RemoveAll_keep(q, rs) == q

\* deque.remove for every element of a list of references
RemoveAll(q, rs) ==
    SelectSeq(q, LAMBDA x : \A i \in 1..Len(rs) : rs[i] # x)


\* ----------------------------------------------------------------- actions
\* The fields of a Bracket that does not exist yet
Blank ==
    /\ bracket = [error |-> "none", n_rounds |-> 0, n_unique_events |-> 0,
                  bracket_root |-> None]
    /\ events = << >>
    /\ team = << >>
    /\ events_to_process = << >>
    /\ calls_to_espn = 0
    /\ calls_to_odds_api = 0
    /\ successfully_updating = TRUE
    /\ last_successful_update = None
    /\ last_attempted_update = None
    /\ matchup_to_spread = << >>
    /\ stop_event = FALSE
    /\ pc = "new"
    /\ determined_events = << >>
    /\ scan_pos = 0
    /\ events_to_remove = << >>
    /\ clock = 0
    /\ ticks = 0
    /\ fetch_error = "none"
    /\ spread_file = [exists |-> FALSE, data |-> << >>]

\* The engine is run on a roster of 2^NRounds participants in seeded order,
\* with the spread cache on or off (no cache file on disk).
Init ==
    /\ participants = [i \in 1..Pow2(NRounds) |-> i]
    /\ cache_spread \in BOOLEAN
    /\ Blank

\* Bracket.__init__(participants, odds_api_key, cache_spread).  Participant i
\* of the roster is created by from_config with a Team of its own, Team i.
Construct ==
    /\ pc = "new"
    /\ \E b \in {BracketInit(participants)} :
           /\ bracket' = [error |-> b.error, n_rounds |-> b.n_rounds,
                          n_unique_events |-> b.n_unique_events,
                          bracket_root |-> b.bracket_root]
           /\ events' = b.heap
           /\ events_to_process' = b.order
           /\ team' = IF b.error = "none"
                      THEN [q \in {participants[i] : i \in 1..Len(participants)} |-> q]
                      ELSE team
           /\ pc' = IF b.error = "none" THEN "constructed" ELSE "failed"
    /\ UNCHANGED << participants, calls_to_espn, calls_to_odds_api,
                    successfully_updating, last_successful_update,
                    last_attempted_update, cache_spread, matchup_to_spread,
                    stop_event, determined_events, scan_pos, events_to_remove, clock, ticks, fetch_error,
                    spread_file >>

\* The assignments an action makes from a state S of the heap
SetHeap(S) ==
    /\ events' = S.events
    /\ team' = S.team
    /\ calls_to_odds_api' = S.calls_to_odds_api
    /\ matchup_to_spread' = S.matchup_to_spread
    /\ spread_file' = S.spread_file

\* The inputs of one visit of event e: the batch holds no record of its
\* matchup (rec = None is not used; present = FALSE), or it holds rec, and the
\* odds feed answers resp1 and resp2 to the queries the visit makes.
\* Visit(S, e, present, rec, resp1, resp2) is what the visit leaves.
Visit(S, e, present, rec, resp1, resp2) ==
    IF present THEN process_event(S, e, cache_spread, rec, resp1, resp2)
    ELSE [S |-> S, raised |-> FALSE]

\* pre_populate_events up to its loop: the fetch of the month's batch succeeds
BackfillFetch ==
    /\ pc = "constructed"
    /\ clock < MaxPasses
    /\ clock' = clock + 1
    /\ determined_events' = SelectSeq(events_to_process,
                                      LAMBDA e : matchup_determined(Heap, e))
    /\ pc' = "backfill"
    /\ UNCHANGED << participants, bracket, events, team, events_to_process,
                    calls_to_espn, calls_to_odds_api, successfully_updating,
                    last_successful_update, last_attempted_update, cache_spread,
                    matchup_to_spread, stop_event, scan_pos, events_to_remove, ticks, fetch_error,
                    spread_file >>

\* One turn of the while loop of pre_populate_events on the event popped from
\* the queue, with the record the batch holds for its matchup.  An exception
\* is not caught: it ends pre_populate_events and goes to its caller.  The
\* root has no parent, and reading matchup_determined of None raises.
BackfillStep(e, present, rec, resp1, resp2) ==
    \E v \in {Visit(Heap, e, present, rec, resp1, resp2)} :
    LET parent == v.S.events[e].parent
        rest == Tail(determined_events)
    IN  /\ v.S.calls_to_odds_api <= MaxOddsCalls
        /\ SetHeap(v.S)
        /\ IF ~present
           THEN /\ determined_events' = rest
                /\ UNCHANGED << events_to_process, pc >>
           ELSE IF v.raised \/ parent = None
           THEN /\ determined_events' = rest
                /\ pc' = "raised"
                /\ UNCHANGED events_to_process
           ELSE /\ determined_events' =
                      IF matchup_determined(v.S, parent)
                      THEN Append(rest, parent) ELSE rest
                /\ events_to_process' =
                      IF v.S.events[e].is_complete
                      THEN RemoveAll(events_to_process, <<e>>)
                      ELSE events_to_process
                /\ UNCHANGED pc

\* Placeholders for a record and an answer that are not read
NoRecord == FeedRecord(None, None, "TBD", 0, 0, "absent", "absent", FALSE)
NoResponse == [error |-> FALSE, data |-> << >>]

\* The inputs of a visit of e in state S: no record of its matchup in the
\* batch, or a record and the answers of the odds feed to the queries the
\* visit makes (NoResponse where it makes none)
VisitInputs(S, e) ==
    {[present |-> FALSE, rec |-> NoRecord, resp1 |-> NoResponse, resp2 |-> NoResponse]}
    \cup UNION {UNION {{[present |-> TRUE, rec |-> rec, resp1 |-> resp1, resp2 |-> resp2] :
                          resp2 \in IF second_lookup(S, e, cache_spread, rec, resp1)
                                    THEN OddsResponses(S, e) ELSE {NoResponse}} :
                   resp1 \in IF S.events[e].spread = NoSpread
                             THEN OddsResponses(S, e) ELSE {NoResponse}} :
          rec \in FeedRecords(matchup_tuple(S, e))}

BackfillEvent ==
    /\ pc = "backfill"
    /\ determined_events # << >>
    /\ LET e == Head(determined_events)
       IN  \E in \in VisitInputs(Heap, e) :
             BackfillStep(e, in.present, in.rec, in.resp1, in.resp2)
    /\ UNCHANGED << participants, bracket, calls_to_espn, successfully_updating,
                    last_successful_update, last_attempted_update, cache_spread,
                    stop_event, scan_pos, events_to_remove, clock, ticks, fetch_error >>

\* pre_populate_events returns once its queue is empty
BackfillReturn ==
    /\ pc = "backfill"
    /\ determined_events = << >>
    /\ pc' = "ready"
    /\ UNCHANGED << participants, bracket, events, team, events_to_process,
                    calls_to_espn, calls_to_odds_api, successfully_updating,
                    last_successful_update, last_attempted_update, cache_spread,
                    matchup_to_spread, stop_event, determined_events, scan_pos,
                    events_to_remove, clock, ticks, fetch_error,
                    spread_file >>

\* Bracket.start(), or a direct call of process_indefinitely, after the
\* backfill or without one
Start ==
    /\ pc \in {"constructed", "ready"}
    /\ pc' = "loop"
    /\ UNCHANGED << participants, bracket, events, team, events_to_process,
                    calls_to_espn, calls_to_odds_api, successfully_updating,
                    last_successful_update, last_attempted_update, cache_spread,
                    matchup_to_spread, stop_event, determined_events, scan_pos,
                    events_to_remove, clock, ticks, fetch_error,
                    spread_file >>

\* LoopExit that does not look at the while condition
LoopExit_early ==
    /\ pc = "loop"
    /\ pc' = "done"
    /\ UNCHANGED << participants, bracket, events, team, events_to_process,
                    calls_to_espn, calls_to_odds_api, successfully_updating,
                    last_successful_update, last_attempted_update, cache_spread,
                    matchup_to_spread, stop_event, determined_events, scan_pos,
                    events_to_remove, clock, ticks, fetch_error,
                    spread_file >>

\* The while condition of process_indefinitely is false: the loop ends
LoopExit ==
    /\ pc = "loop"
    /\ events_to_process = << >> \/ stop_event
    /\ pc' = "done"
    /\ UNCHANGED << participants, bracket, events, team, events_to_process,
                    calls_to_espn, calls_to_odds_api, successfully_updating,
                    last_successful_update, last_attempted_update, cache_spread,
                    matchup_to_spread, stop_event, determined_events, scan_pos,
                    events_to_remove, clock, ticks, fetch_error,
                    spread_file >>

\* The while condition is true: a poll iteration begins, up to the call of
\* get_score_data
LoopEnter ==
    /\ pc = "loop"
    /\ events_to_process # << >> /\ ~stop_event
    /\ clock < MaxPasses
    /\ events_to_remove' = << >>
    /\ ticks' = 0
    /\ pc' = "fetch"
    /\ UNCHANGED << participants, bracket, events, team, events_to_process,
                    calls_to_espn, calls_to_odds_api, successfully_updating,
                    last_successful_update, last_attempted_update, cache_spread,
                    matchup_to_spread, stop_event, determined_events, scan_pos,
                    clock, fetch_error,
                    spread_file >>

\* get_score_data returns a batch, and the for loop begins
PollFetch ==
    /\ pc = "fetch"
    /\ clock' = clock + 1
    /\ events_to_remove' = << >>
    /\ scan_pos' = 1
    /\ fetch_error' = "none"
    /\ pc' = "scan"
    /\ UNCHANGED << participants, bracket, events, team, events_to_process,
                    calls_to_espn, calls_to_odds_api, successfully_updating,
                    last_successful_update, last_attempted_update, cache_spread,
                    matchup_to_spread, stop_event, determined_events, ticks,
                    spread_file >>

\* The ways get_score_data raises: the request fails, or two records of the
\* batch have the same sorted pair of team codes (its second assertion)
FetchFaults == {"request_failed", "duplicate_matchup"}

\* PollFetchFails with an except branch that leaves the health flag alone
PollFetchFails_silent ==
    /\ pc = "fetch"
    /\ clock' = clock + 1
    /\ \E fault \in FetchFaults : fetch_error' = fault
    /\ events_to_process' = RemoveAll(events_to_process, events_to_remove)
    /\ last_attempted_update' = clock'
    /\ pc' = "sleep"
    /\ UNCHANGED << participants, bracket, events, team, calls_to_espn,
                    calls_to_odds_api, successfully_updating, last_successful_update,
                    cache_spread, matchup_to_spread, stop_event, determined_events,
                    scan_pos, events_to_remove, ticks,
                    spread_file >>

\* get_score_data raises: the except branch, the removal of the (empty)
\* events_to_remove and the timestamp
PollFetchFails ==
    /\ pc = "fetch"
    /\ clock' = clock + 1
    /\ \E fault \in FetchFaults : fetch_error' = fault
    /\ successfully_updating' = FALSE
    /\ events_to_process' = RemoveAll(events_to_process, events_to_remove)
    /\ last_attempted_update' = clock'
    /\ pc' = "sleep"
    /\ UNCHANGED << participants, bracket, events, team, calls_to_espn,
                    calls_to_odds_api, last_successful_update, cache_spread,
                    matchup_to_spread, stop_event, determined_events, scan_pos,
                    events_to_remove, ticks,
                    spread_file >>

\* PollStep that never puts a completed event on events_to_remove
PollStep_keep(e, present, rec, resp1, resp2) ==
    \E v \in {Visit(Heap, e, present, rec, resp1, resp2)} :
        /\ v.S.calls_to_odds_api <= MaxOddsCalls
        /\ SetHeap(v.S)
        /\ IF v.raised
           THEN /\ successfully_updating' = FALSE
                /\ events_to_process' = RemoveAll(events_to_process, events_to_remove)
                /\ last_attempted_update' = clock
                /\ pc' = "sleep"
                /\ UNCHANGED << events_to_remove, scan_pos >>
           ELSE /\ scan_pos' = scan_pos + 1
                /\ UNCHANGED << successfully_updating, events_to_process,
                                last_attempted_update, pc, events_to_remove >>

\* One turn of the for loop of process_indefinitely on event e.  When the
\* turn raises, the rest of the try block is skipped: the except branch, the
\* removal of events_to_remove and the timestamp follow.
PollStep(e, present, rec, resp1, resp2) ==
    \E v \in {Visit(Heap, e, present, rec, resp1, resp2)} :
        /\ v.S.calls_to_odds_api <= MaxOddsCalls
        /\ SetHeap(v.S)
        /\ IF v.raised
           THEN /\ successfully_updating' = FALSE
                /\ events_to_process' = RemoveAll(events_to_process, events_to_remove)
                /\ last_attempted_update' = clock
                /\ pc' = "sleep"
                /\ UNCHANGED << events_to_remove, scan_pos >>
           ELSE /\ events_to_remove' = IF v.S.events[e].is_complete
                                       THEN Append(events_to_remove, e)
                                       ELSE events_to_remove
                /\ scan_pos' = scan_pos + 1
                /\ UNCHANGED << successfully_updating, events_to_process,
                                last_attempted_update, pc >>

\* PollEvent that takes an Event out of the deque as soon as it is complete
PollEvent_eager ==
    /\ pc = "scan"
    /\ scan_pos <= Len(events_to_process)
    /\ LET e == events_to_process[scan_pos]
       IN  \E in \in (IF matchup_determined(Heap, e)
                      THEN VisitInputs(Heap, e)
                      ELSE {[present |-> FALSE, rec |-> NoRecord,
                             resp1 |-> NoResponse, resp2 |-> NoResponse]}) :
             \E v \in {Visit(Heap, e, in.present, in.rec, in.resp1, in.resp2)} :
               /\ v.S.calls_to_odds_api <= MaxOddsCalls
               /\ SetHeap(v.S)
               /\ IF v.raised
                  THEN /\ successfully_updating' = FALSE
                       /\ events_to_process' = RemoveAll(events_to_process, events_to_remove)
                       /\ last_attempted_update' = clock
                       /\ pc' = "sleep"
                       /\ UNCHANGED << events_to_remove, scan_pos >>
                  ELSE /\ events_to_process' = IF v.S.events[e].is_complete
                                               THEN RemoveAll(events_to_process, <<e>>)
                                               ELSE events_to_process
                       /\ scan_pos' = IF v.S.events[e].is_complete
                                      THEN scan_pos ELSE scan_pos + 1
                       /\ UNCHANGED << successfully_updating, last_attempted_update,
                                       pc, events_to_remove >>
    /\ UNCHANGED << participants, bracket, calls_to_espn, last_successful_update,
                    cache_spread, stop_event, determined_events, clock, ticks,
                    fetch_error >>

PollEvent ==
    /\ pc = "scan"
    /\ scan_pos <= Len(events_to_process)
    /\ LET e == events_to_process[scan_pos]
       IN  IF matchup_determined(Heap, e)
           THEN \E in \in VisitInputs(Heap, e) :
                  PollStep(e, in.present, in.rec, in.resp1, in.resp2)
           ELSE PollStep(e, FALSE, NoRecord, NoResponse, NoResponse)
    /\ UNCHANGED << participants, bracket, calls_to_espn, last_successful_update,
                    cache_spread, stop_event, determined_events, clock, ticks, fetch_error >>

\* PollFinish that empties the deque
PollFinish_clear ==
    /\ pc = "scan"
    /\ scan_pos > Len(events_to_process)
    /\ calls_to_espn' = calls_to_espn + 1
    /\ successfully_updating' = TRUE
    /\ last_successful_update' = clock
    /\ events_to_process' = << >>
    /\ last_attempted_update' = clock
    /\ pc' = "sleep"
    /\ UNCHANGED << participants, bracket, events, team, calls_to_odds_api,
                    cache_spread, matchup_to_spread, stop_event, determined_events,
                    scan_pos, events_to_remove, clock, ticks, fetch_error,
                    spread_file >>

\* The for loop ended without an exception: the counters of a successful
\* iteration, the removal of the events that completed, the timestamp
PollFinish ==
    /\ pc = "scan"
    /\ scan_pos > Len(events_to_process)
    /\ calls_to_espn' = calls_to_espn + 1
    /\ successfully_updating' = TRUE
    /\ last_successful_update' = clock
    /\ events_to_process' = RemoveAll(events_to_process, events_to_remove)
    /\ last_attempted_update' = clock
    /\ pc' = "sleep"
    /\ UNCHANGED << participants, bracket, events, team, calls_to_odds_api,
                    cache_spread, matchup_to_spread, stop_event, determined_events,
                    scan_pos, events_to_remove, clock, ticks, fetch_error,
                    spread_file >>

\* The sleep loop between two iterations, when no stop is requested during it:
\* its 60 turns
Sleep ==
    /\ pc = "sleep"
    /\ ~stop_event
    /\ pc' = "loop"
    /\ UNCHANGED << participants, bracket, events, team, events_to_process,
                    calls_to_espn, calls_to_odds_api, successfully_updating,
                    last_successful_update, last_attempted_update, cache_spread,
                    matchup_to_spread, stop_event, determined_events, scan_pos,
                    events_to_remove, clock, ticks, fetch_error,
                    spread_file >>

Next ==
    \/ Construct
    \/ BackfillFetch
    \/ BackfillEvent
    \/ BackfillReturn
    \/ Start
    \/ LoopExit
    \/ LoopEnter
    \/ PollFetch
    \/ PollFetchFails
    \/ PollEvent
    \/ PollFinish
    \/ Sleep

Spec == Init /\ [][Next]_vars

\* --------------------------------------------------- the loop and a stop
\* SleepTick that does not look at the stop event
SleepTick_deaf ==
    /\ pc = "sleep"
    /\ ticks < SleepTicks
    /\ ticks' = ticks + 1
    /\ UNCHANGED << participants, bracket, events, team, events_to_process,
                    calls_to_espn, calls_to_odds_api, successfully_updating,
                    last_successful_update, last_attempted_update, cache_spread,
                    matchup_to_spread, stop_event, pc, determined_events, scan_pos,
                    events_to_remove, clock, fetch_error,
                    spread_file >>

\* One turn of the sleep loop: the stop event is not set, time.sleep(1)
SleepTick ==
    /\ pc = "sleep"
    /\ ~stop_event
    /\ ticks < SleepTicks
    /\ ticks' = ticks + 1
    /\ UNCHANGED << participants, bracket, events, team, events_to_process,
                    calls_to_espn, calls_to_odds_api, successfully_updating,
                    last_successful_update, last_attempted_update, cache_spread,
                    matchup_to_spread, stop_event, pc, determined_events, scan_pos,
                    events_to_remove, clock, fetch_error,
                    spread_file >>

\* The sleep loop ends: its turns are used up, or the stop event is set (break)
SleepEnd ==
    /\ pc = "sleep"
    /\ stop_event \/ ticks = SleepTicks
    /\ pc' = "loop"
    /\ UNCHANGED << participants, bracket, events, team, events_to_process,
                    calls_to_espn, calls_to_odds_api, successfully_updating,
                    last_successful_update, last_attempted_update, cache_spread,
                    matchup_to_spread, stop_event, determined_events, scan_pos,
                    events_to_remove, clock, ticks, fetch_error,
                    spread_file >>

\* Bracket.stop() sets the stop event while the update thread runs; its
\* join() returns when the thread has ended (pc = "done")
Stop ==
    /\ pc \in {"loop", "fetch", "scan", "sleep"}
    /\ ~stop_event
    /\ stop_event' = TRUE
    /\ UNCHANGED << participants, bracket, events, team, events_to_process,
                    calls_to_espn, calls_to_odds_api, successfully_updating,
                    last_successful_update, last_attempted_update, cache_spread,
                    matchup_to_spread, pc, determined_events, scan_pos,
                    events_to_remove, clock, ticks, fetch_error,
                    spread_file >>

\* The steps of the update thread
Worker ==
    \/ LoopExit
    \/ LoopEnter
    \/ PollFetch
    \/ PollFetchFails
    \/ PollEvent
    \/ PollFinish
    \/ SleepTick
    \/ SleepEnd

NextStop ==
    \/ Construct
    \/ Start
    \/ Worker
    \/ Stop

\* The engine one pass before the last the model follows
InitStop ==
    /\ participants = [i \in 1..Pow2(NRounds) |-> i]
    /\ cache_spread \in BOOLEAN
    /\ bracket = [error |-> "none", n_rounds |-> 0, n_unique_events |-> 0,
                  bracket_root |-> None]
    /\ events = << >>
    /\ team = << >>
    /\ events_to_process = << >>
    /\ calls_to_espn = 0
    /\ calls_to_odds_api = 0
    /\ successfully_updating = TRUE
    /\ last_successful_update = None
    /\ last_attempted_update = None
    /\ matchup_to_spread = << >>
    /\ stop_event = FALSE
    /\ pc = "new"
    /\ determined_events = << >>
    /\ scan_pos = 0
    /\ events_to_remove = << >>
    /\ clock = MaxPasses - 1
    /\ ticks = 0
    /\ fetch_error = "none"
    /\ spread_file = [exists |-> FALSE, data |-> << >>]

\* The engine started without a backfill, with a caller that may stop it; the
\* update thread, once started, is scheduled as long as it can take a step.
SpecStop == InitStop /\ [][NextStop]_vars /\ WF_vars(Worker)

\* ------------------------------------------ the loop with obliging feeds
\* The record of a finished game with the winner flag on the side that scored
\* more
GoodRecords(m) ==
    {FeedRecord(m[1], m[2], "STATUS_FINAL", sc[1], sc[2],
                IF sc[1] > sc[2] THEN "true" ELSE "false",
                IF sc[2] > sc[1] THEN "true" ELSE "false", TRUE) :
       sc \in FinalScores}

\* The answers of the odds feed that hold the game of the two teams of e
GoodResponses(S, e) ==
    LET h == S.team[S.events[e].home_participant]
        a == S.team[S.events[e].away_participant]
    IN  {[error |-> FALSE,
          data |-> <<[home_team |-> odds_api_name(h), away_team |-> odds_api_name(a),
                     bookmakers |-> bs]>>] :
           bs \in SeqsUpTo(Markets(h, a), MaxBookmakers)}

\* The while condition is true after the passes counted by MaxPasses: one more
\* iteration begins
GoodEnter ==
    /\ pc = "loop"
    /\ events_to_process # << >> /\ ~stop_event
    /\ clock >= MaxPasses
    /\ clock < MaxPasses + MaxGoodPasses
    /\ events_to_remove' = << >>
    /\ ticks' = 0
    /\ pc' = "fetch"
    /\ UNCHANGED << participants, bracket, events, team, events_to_process,
                    calls_to_espn, calls_to_odds_api, successfully_updating,
                    last_successful_update, last_attempted_update, cache_spread,
                    matchup_to_spread, stop_event, determined_events, scan_pos,
                    clock, fetch_error, spread_file >>

\* get_score_data raises in one of the passes counted by MaxPasses
EarlyFetchFails ==
    /\ clock < MaxPasses
    /\ PollFetchFails

\* One turn of the for loop in one of the passes counted by MaxPasses
EarlyEvent ==
    /\ clock <= MaxPasses
    /\ PollEvent

\* One turn of the for loop of process_indefinitely on event e, as PollStep,
\* however many queries of the odds feed have been made
GoodStep(e, present, rec, resp1, resp2) ==
    \E v \in {Visit(Heap, e, present, rec, resp1, resp2)} :
        /\ SetHeap(v.S)
        /\ IF v.raised
           THEN /\ successfully_updating' = FALSE
                /\ events_to_process' = RemoveAll(events_to_process, events_to_remove)
                /\ last_attempted_update' = clock
                /\ pc' = "sleep"
                /\ UNCHANGED << events_to_remove, scan_pos >>
           ELSE /\ events_to_remove' = IF v.S.events[e].is_complete
                                       THEN Append(events_to_remove, e)
                                       ELSE events_to_remove
                /\ scan_pos' = scan_pos + 1
                /\ UNCHANGED << successfully_updating, events_to_process,
                                last_attempted_update, pc >>

\* One turn of the for loop in a later pass: the batch holds the finished game
\* of every determined Event, and the odds feed holds its spread
GoodEvent ==
    /\ clock > MaxPasses
    /\ pc = "scan"
    /\ scan_pos <= Len(events_to_process)
    /\ LET e == events_to_process[scan_pos]
       IN  IF matchup_determined(Heap, e)
           THEN \E rec \in GoodRecords(matchup_tuple(Heap, e)) :
                  \E resp \in GoodResponses(Heap, e) :
                    GoodStep(e, TRUE, rec, resp, resp)
           ELSE GoodStep(e, FALSE, NoRecord, NoResponse, NoResponse)
    /\ UNCHANGED << participants, bracket, calls_to_espn, last_successful_update,
                    cache_spread, stop_event, determined_events, clock, ticks,
                    fetch_error >>

NextGood ==
    \/ Construct
    \/ Start
    \/ LoopExit
    \/ LoopEnter
    \/ GoodEnter
    \/ PollFetch
    \/ EarlyFetchFails
    \/ EarlyEvent
    \/ GoodEvent
    \/ PollFinish
    \/ Sleep

\* The engine configured without the spread cache
InitGood ==
    /\ Init
    /\ ~cache_spread

\* The engine started without a backfill: MaxPasses poll passes with any
\* feeds, then passes in which every fetch succeeds and every determined
\* matchup is in the batch, complete, flagged and with a spread on offer; every
\* step that can be taken is taken in the end.
SpecGood == InitGood /\ [][NextGood]_vars /\ WF_vars(NextGood)

\* ------------------------------------------------- a bracket of three rounds
\* The number of rounds of the larger bracket
WideRounds == 3

\* The record the score feed holds for a finished game of the matchup m: the
\* first team won 1 to 0 and is flagged
WideRecords(m) ==
    {FeedRecord(m[1], m[2], "STATUS_FINAL", 1, 0, "true", "false", TRUE)}

\* The answers of the odds feed to a query made for event e: the request
\* fails, or the game of its two teams with one bookmaker who favors the home
\* team by one point
WideResponses(S, e) ==
    LET h == S.team[S.events[e].home_participant]
        a == S.team[S.events[e].away_participant]
    IN  {[error |-> TRUE, data |-> << >>],
         [error |-> FALSE,
          data |-> <<[home_team |-> odds_api_name(h), away_team |-> odds_api_name(a),
                     bookmakers |-> <<[outcomes |->
                        << [name |-> odds_api_name(h), point |-> 0 - 1],
                           [name |-> odds_api_name(a), point |-> 1] >>]>>]>>]}

\* One turn of the for loop of process_indefinitely: the batch holds no record
\* of the matchup, or the record of its finished game
WideEvent ==
    /\ pc = "scan"
    /\ scan_pos <= Len(events_to_process)
    /\ LET e == events_to_process[scan_pos]
       IN  \/ GoodStep(e, FALSE, NoRecord, NoResponse, NoResponse)
           \/ /\ matchup_determined(Heap, e)
              /\ \E rec \in WideRecords(matchup_tuple(Heap, e)) :
                   \E resp \in IF events[e].spread = NoSpread
                               THEN WideResponses(Heap, e) ELSE {NoResponse} :
                     GoodStep(e, TRUE, rec, resp, NoResponse)
    /\ UNCHANGED << participants, bracket, calls_to_espn, last_successful_update,
                    cache_spread, stop_event, determined_events, clock, ticks,
                    fetch_error >>

NextWide ==
    \/ Construct
    \/ Start
    \/ LoopExit
    \/ LoopEnter
    \/ PollFetch
    \/ PollFetchFails
    \/ WideEvent
    \/ PollFinish
    \/ Sleep

\* The engine is run on a roster of 2^WideRounds participants, without the
\* spread cache
InitWide ==
    /\ participants = [i \in 1..Pow2(WideRounds) |-> i]
    /\ cache_spread = FALSE
    /\ Blank

\* The engine on the larger bracket, started without a backfill: poll passes
\* in which a game is either not in the batch or finished
SpecWide == InitWide /\ [][NextWide]_vars


\* ------------------------------------------------- construction on its own
\* The participant lists handed to the constructor: every rotation of
\* 1..n, for every length n up to MaxParticipants
Rosters ==
    UNION {{[i \in 1..n |-> ((i - 1 + r) % n) + 1] : r \in 0..(n - 1)} :
             n \in 1..MaxParticipants}
    \cup {<< >>}

InitBuild ==
    /\ participants \in Rosters
    /\ cache_spread = TRUE
    /\ Blank

SpecBuild == InitBuild /\ [][Construct]_vars


\* ------------------------------------------------------------------ claims
EventRefs == DOMAIN events

\* The Events from e up to the root, along the _parent references
RECURSIVE PathToRoot(_)
PathToRoot(e) ==
    IF events[e].parent = None THEN {e} ELSE {e} \cup PathToRoot(events[e].parent)

\* C1: when an Event's winner is computed, it is the home participant if
\* home score + spread[home] > away score, the away participant if it is
\* smaller, and on equality the side whose spread value is positive; the
\* teams are those the two participants have when the record is applied.
\* 70-65 and 70-63 with a home spread of -7 both give the away side.
C1_WinnerAgainstSpread ==
    [][\A e \in EventRefs :
         (e \in DOMAIN events' /\ events[e].winning_participant = None
            /\ events'[e].winning_participant # None) =>
           LET home == events[e].home_participant
               away == events[e].away_participant
               adjusted_home == events'[e].team_to_score[code_name(team[home])]
                                  + events'[e].spread[odds_api_name(team[home])]
               away_score == events'[e].team_to_score[code_name(team[away])]
               winner == events'[e].winning_participant
           IN  /\ adjusted_home > away_score => winner = home
               /\ adjusted_home < away_score => winner = away
               /\ adjusted_home = away_score =>
                    /\ winner \in {home, away}
                    /\ events'[e].spread[odds_api_name(team[winner])] > 0
               /\ ats_side(70, 0 - 7, 65) = "away"
               /\ ats_side(70, 0 - 7, 63) = "away"]_vars

\* An Event completed on a push: the spread offsets the score gap exactly
C1_Witness ==
    \E e \in EventRefs :
      /\ events[e].is_complete /\ events[e].winning_participant # None
      /\ \E t1 \in DOMAIN team, t2 \in DOMAIN team :
           /\ t1 # t2
           /\ DOMAIN events[e].team_to_score = {code_name(t1), code_name(t2)}
           /\ events[e].team_to_score[code_name(t1)] + events[e].spread[odds_api_name(t1)]
                = events[e].team_to_score[code_name(t2)]

\* C2: once the root is complete with a winner, every Event of the bracket is
\* complete with a winner, and the root's winner is one of the original
\* participants, who played in exactly one round-1 Event and is the winner of
\* every Event from that one up to the root.
C2_OneChampion ==
    (pc \notin {"new", "failed"}
       /\ events[bracket.bracket_root].is_complete
       /\ events[bracket.bracket_root].winning_participant # None) =>
      LET champion == events[bracket.bracket_root].winning_participant
          first == {e \in EventRefs :
                      /\ events[e].round = 1
                      /\ champion \in {events[e].home_participant,
                                       events[e].away_participant}}
      IN  /\ \E i \in 1..Len(participants) : participants[i] = champion
          /\ \A e \in EventRefs :
               events[e].is_complete /\ events[e].winning_participant # None
          /\ Cardinality(first) = 1
          /\ \A f \in first : \A e \in PathToRoot(f) :
               events[e].winning_participant = champion

\* The root completed, all Events of the bracket having completed below it
C2_Witness ==
    /\ pc \notin {"new", "failed"}
    /\ events[bracket.bracket_root].is_complete
    /\ events[bracket.bracket_root].winning_participant # None
    /\ events_to_process = << >>


\* C3: a list of N = 4, 8, 16, ... participants is accepted, and the bracket
\* built from it has N - 1 Events and log2(N) rounds, one root without a
\* parent, and every other Event has one parent of which it is the left or
\* the right child and which is one round above it.
C3_TreeShape ==
    LET N == Len(participants)
    IN  /\ (pc = "failed") => N \notin {4, 8, 16, 32}
        /\ (pc = "constructed") =>
             /\ Len(events) = N - 1
             /\ bracket.n_unique_events = N - 1
             /\ Pow2(bracket.n_rounds) = N
             /\ \A e \in EventRefs : events[e].round \in 1..bracket.n_rounds
             /\ {e \in EventRefs : events[e].parent = None} = {bracket.bracket_root}
             /\ events[bracket.bracket_root].round = bracket.n_rounds
             /\ \A e \in EventRefs \ {bracket.bracket_root} :
                  LET p == events[e].parent
                  IN  /\ p \in EventRefs
                      /\ (events[p].left = e) # (events[p].right = e)
                      /\ events[p].round = events[e].round + 1
                      /\ Cardinality({q \in EventRefs : e \in {events[q].left,
                                                               events[q].right}}) = 1

\* A bracket of 16 participants has been built
C3_Witness ==
    /\ pc = "constructed"
    /\ Len(participants) = 16
    /\ Len(events) = 15

\* The reference of the Event whose event_id is i
ById(i) == CHOOSE e \in EventRefs : events[e].event_id = i

\* C4: the event_ids are 1..N-1; Event i+1 (i from 0) is the round-1 Event of
\* the participants at positions 2i and 2i+1, home and away; the ids go round
\* by round and left to right, the j-th Event of a round being the parent of
\* the (2j-1)-th and the 2j-th of the round below; the root has the largest
\* id; the events to process are all Events in the order of their ids.
C4_IdOrder ==
    LET N == Len(participants)
        \* the id of the first Event of round r, less one
        before(r) == N - (N \div Pow2(r - 1))
    IN  (pc = "constructed") =>
          /\ {events[e].event_id : e \in EventRefs} = 1..(N - 1)
          /\ \A i \in 0..((N \div 2) - 1) :
               /\ events[ById(i + 1)].round = 1
               /\ events[ById(i + 1)].home_participant = participants[(2 * i) + 1]
               /\ events[ById(i + 1)].away_participant = participants[(2 * i + 1) + 1]
          /\ \A e \in EventRefs :
               events[e].event_id \in (before(events[e].round) + 1)
                                        ..before(events[e].round + 1)
          /\ \A e \in EventRefs : events[e].round > 1 =>
               LET j == events[e].event_id - before(events[e].round)
               IN  /\ events[events[e].left].event_id
                        = before(events[e].round - 1) + (2 * j - 1)
                   /\ events[events[e].right].event_id
                        = before(events[e].round - 1) + (2 * j)
                   /\ events[e].home_participant = None
                   /\ events[e].away_participant = None
          /\ events[bracket.bracket_root].event_id = N - 1
          /\ Len(events_to_process) = N - 1
          /\ \A i \in 1..(N - 1) : events[events_to_process[i]].event_id = i
          /\ events_to_process[N - 1] = bracket.bracket_root

\* A bracket of 8 participants, not in the order 1..8, has been built
C4_Witness ==
    /\ pc = "constructed"
    /\ Len(participants) = 8
    /\ participants[1] = 3
    /\ events[ById(2)].home_participant = 5


\* Is the matchup of Event e known (both of its participants), and has e
\* completed with a winner
Determined(e) ==
    events[e].home_participant # None /\ events[e].away_participant # None
Resolved(e) ==
    events[e].is_complete /\ events[e].winning_participant # None

\* C5: a round-1 Event is determined in every state; an Event of a higher
\* round is determined exactly when both of its children are complete with a
\* winner, and it holds no status, score, spread or result before that.
C5_DeterminedWhenChildrenDone ==
    \A e \in EventRefs :
      /\ events[e].round = 1 => Determined(e)
      /\ events[e].round > 1 =>
           /\ Determined(e) <=> (Resolved(events[e].left) /\ Resolved(events[e].right))
           /\ events[e].home_participant # None <=> Resolved(events[e].left)
           /\ events[e].away_participant # None <=> Resolved(events[e].right)
           /\ ~Determined(e) =>
                /\ events[e].status = "TBD"
                /\ ~events[e].is_complete
                /\ events[e].winning_participant = None
                /\ events[e].spread = NoSpread
                /\ events[e].team_to_score = << >>

\* An Event of round 2 has been updated from the feed, after both its children
C5_Witness ==
    \E e \in EventRefs :
      /\ events[e].round > 1
      /\ Determined(e)
      /\ events[e].status # "TBD"

\* C6: an Event that is complete has a winning participant.
C6_CompleteHasWinner ==
    \A e \in EventRefs : events[e].is_complete => events[e].winning_participant # None

\* C7: is_complete never goes from true to false.
C7_CompleteMonotonic ==
    [][\A e \in EventRefs :
         (e \in DOMAIN events' /\ events[e].is_complete) => events'[e].is_complete]_vars

\* C8: once both participants of an Event are known, neither is replaced.
C8_ParticipantsFixed ==
    [][\A e \in EventRefs :
         (e \in DOMAIN events' /\ Determined(e)) =>
           /\ events'[e].home_participant = events[e].home_participant
           /\ events'[e].away_participant = events[e].away_participant]_vars

\* The final has both its participants and has been updated since
C8_Witness ==
    /\ pc \notin {"new", "failed"}
    /\ Determined(bracket.bracket_root)
    /\ events[bracket.bracket_root].status = "STATUS_IN_PROGRESS"

\* The Event the backfill or the poll pass visits in its next step
Visiting(e) ==
    \/ /\ pc = "scan"
       /\ scan_pos <= Len(events_to_process)
       /\ events_to_process[scan_pos] = e
    \/ /\ pc = "backfill"
       /\ determined_events # << >>
       /\ Head(determined_events) = e

C10_FetchFailureFlag ==
    [][/\ (pc = "fetch" /\ pc' = "sleep") =>
            /\ events_to_process' = events_to_process
            /\ successfully_updating' = FALSE
       /\ (pc = "scan" /\ scan_pos > Len(events_to_process) /\ pc' = "sleep") =>
            successfully_updating' = TRUE]_vars

\* A successful iteration has followed a failed one
C10_Witness ==
    /\ pc = "sleep"
    /\ successfully_updating
    /\ calls_to_espn = 1
    /\ last_successful_update = 2
    /\ determined_events = << >>
    /\ \A e \in EventRefs : events[e].status = "TBD"

\* The update thread is inside process_indefinitely
InLoop == pc \in {"loop", "fetch", "scan", "sleep"}

\* C11: no step of a poll iteration, with or without an exception in the
\* fetch or in the processing of an Event, leaves the loop: after the fetch
\* and after every Event the thread is in the scan or in the sleep, after the
\* sleep it is at the while condition again, where a new iteration can begin
\* as long as Events are left and no stop is requested; the loop ends only at
\* the while condition, with no Event left or a stop requested.
C11_LoopSurvivesExceptions ==
    /\ [][/\ InLoop => pc' \in {"loop", "fetch", "scan", "sleep", "done"}
          /\ pc \in {"fetch", "scan"} => pc' \in {"scan", "sleep"}
          /\ pc = "sleep" => pc' \in {"sleep", "loop"}
          /\ (pc # "done" /\ pc' = "done") =>
               /\ pc = "loop"
               /\ events_to_process = << >> \/ stop_event]_vars
    /\ []((pc = "loop" /\ events_to_process # << >> /\ ~stop_event /\ clock < MaxPasses)
            => ENABLED LoopEnter)
    /\ []((pc = "sleep" /\ ~stop_event) => ENABLED Sleep)

\* An iteration is under way after one that failed
C11_Witness ==
    /\ pc = "scan"
    /\ ~successfully_updating
    /\ calls_to_espn = 0
    /\ last_attempted_update = 1

\* C12: once the stop event is set, no new iteration begins at the while
\* condition, no further turn of the sleep loop is made (the sleep ends at its
\* next check of the event), the thread leaves the loop from the while
\* condition, and it does end, so that the join of stop() returns.
C12_StopIsPrompt ==
    /\ [][stop_event =>
            /\ ~(pc = "loop" /\ pc' = "fetch")
            /\ pc = "loop" => pc' \in {"loop", "done"}
            /\ pc = "sleep" => (pc' \in {"sleep", "loop"} /\ ticks' = ticks)
            /\ clock' = clock \/ pc = "fetch"]_vars
    /\ (stop_event ~> pc = "done")

\* The thread has ended on a stop requested in the middle of a sleep, with
\* Events left to process
C12_Witness ==
    /\ stop_event
    /\ pc = "done"
    /\ events_to_process # << >>
    /\ ticks \in 1..(SleepTicks - 1)

\* C13: in a poll pass, when the odds feed answers the queries of a visit and
\* the resolver finds no spread for the Event, the visit does not raise (the
\* pass goes on and successfully_updating is not set to false), whatever the
\* record of the game, a complete one included, and it leaves the Event
\* complete only if the Event holds a spread.
C13_NoSpreadIsRetryable ==
    \A e \in EventRefs :
      (pc = "scan" /\ Visiting(e) /\ Determined(e) /\ events[e].spread = NoSpread) =>
        \A in \in VisitInputs(Heap, e) :
          (in.present /\ ~in.resp1.error /\ ~in.resp2.error) =>
            \A first \in {initial_spread(Heap, e, cache_spread, in.resp1)} :
              (first.S.events[e].spread = NoSpread) =>
                \A v \in {Visit(Heap, e, TRUE, in.rec, in.resp1, in.resp2)} :
                  /\ ~v.raised
                  /\ v.S.events[e].is_complete => v.S.events[e].spread # NoSpread

\* C14: a visit with a complete record that carries no winner flag does not
\* raise, does not make the Event complete, gives no Participant another
\* team and leaves the parent as it is.
C14_UnflaggedRecordSkipped ==
    \A e \in EventRefs :
      (Visiting(e) /\ Determined(e) /\ ~events[e].is_complete) =>
        \A in \in VisitInputs(Heap, e) :
          (in.present /\ in.rec.completed /\ record_winning_team_code(in.rec) = None) =>
            \A v \in {Visit(Heap, e, TRUE, in.rec, in.resp1, in.resp2)} :
              /\ ~v.raised
              /\ ~v.S.events[e].is_complete
              /\ v.S.team = team
              /\ events[e].parent # None =>
                   v.S.events[events[e].parent] = events[events[e].parent]

\* C15: when the fetched batch holds two records of the same pair of teams,
\* the pass is not aborted: the scan of the Events follows the fetch, and
\* successfully_updating is not set to false.
C15_DuplicateRecordSkipped ==
    [][(pc = "fetch" /\ fetch_error' = "duplicate_matchup") =>
         /\ pc' = "scan"
         /\ successfully_updating' = successfully_updating]_vars

\* C16: in the step in which an Event gets its winner, the team of the
\* winning participant after the step has the code held in winning_team_code,
\* which is the code of the team of one of the Event's two participants.
C16_WinnerCarriesWinningTeam ==
    [][\A e \in EventRefs :
         (e \in DOMAIN events' /\ events[e].winning_participant = None
            /\ events'[e].winning_participant # None) =>
           /\ code_name(team'[events'[e].winning_participant])
                = events'[e].winning_team_code
           /\ events'[e].winning_team_code \in
                {code_name(team[events[e].home_participant]),
                 code_name(team[events[e].away_participant])}]_vars

\* The references held by a deque
Refs(q) == {q[i] : i \in 1..Len(q)}

\* C17: a step changes Events only while it visits an Event e, and then it
\* changes no Event but e and the parent of e, of which it changes nothing
\* but one of home_participant and away_participant; a step that removes
\* Events from the events to process removes only Events that are complete
\* and keeps the others in their order.
C17_CompletionFrame ==
    [][pc # "new" =>
         /\ events' # events => \E e \in EventRefs : Visiting(e)
         /\ \A e \in EventRefs : Visiting(e) =>
              \A f \in EventRefs \ {e} :
                IF f = events[e].parent
                THEN /\ [events'[f] EXCEPT
                           !.home_participant = events[f].home_participant,
                           !.away_participant = events[f].away_participant] = events[f]
                     /\ \/ events'[f].home_participant = events[f].home_participant
                        \/ events'[f].away_participant = events[f].away_participant
                ELSE events'[f] = events[f]
         /\ \A f \in Refs(events_to_process) \ Refs(events_to_process') :
              events'[f].is_complete
         /\ events_to_process' =
              SelectSeq(events_to_process, LAMBDA f : f \in Refs(events_to_process'))]_vars

\* An Event has completed and left the deque, its sibling has not, and their
\* parent holds one participant
C17_Witness ==
    /\ pc \in {"sleep", "loop", "backfill", "ready"}
    /\ \E e \in EventRefs :
         /\ Resolved(e)
         /\ e \notin Refs(events_to_process)
         /\ events[e].parent # None
         /\ (events[events[e].parent].home_participant = None)
              # (events[events[e].parent].away_participant = None)

\* C18: a participant list whose length is not a power of two or is below 4
\* is refused with the assertion error of the size check, and no Event exists.
C18_BadSizeRefused ==
    LET N == Len(participants)
    IN  (pc # "new" /\ (~IsPowerOfTwo(N) \/ N < 4)) =>
          /\ pc = "failed"
          /\ bracket.error = "AssertionError"
          /\ events = << >>
          /\ events_to_process = << >>

\* The assignments of Event.update(rec) on Event e, one after the other, for a
\* call that runs to its end: the heap after each of them.  Another thread can
\* read the objects between any two of them.
update_points(S, e, rec) ==
    LET a1 == [S EXCEPT !.events[e].status = rec.status]
        a2 == [a1 EXCEPT !.events[e].estimated_start_time = rec.date]
        a3 == IF rec.has_competitions
              THEN [a2 EXCEPT !.events[e].team_to_score = record_team_to_score(rec)]
              ELSE a2
        a4 == [a3 EXCEPT !.events[e].is_complete = rec.completed]
        winning_team_code == IF rec.has_competitions
                             THEN record_winning_team_code(rec) ELSE None
        winner == determine_winning_participant(a4, e)
        losing_team == IF winner = a4.events[e].away_participant
                       THEN a4.team[a4.events[e].home_participant]
                       ELSE a4.team[a4.events[e].away_participant]
        a5 == [a4 EXCEPT !.events[e].winning_participant = winner]
        a6 == IF code_name(a5.team[winner]) # winning_team_code
              THEN [a5 EXCEPT !.team[winner] = losing_team]
              ELSE a5
        a7 == [a6 EXCEPT !.events[e].winning_team_code = winning_team_code]
        a8 == IF a7.events[e].parent # None
              THEN update_from_child(a7, a7.events[e].parent, e)
              ELSE a7
    IN  IF rec.completed THEN << a1, a2, a3, a4, a5, a6, a7, a8 >>
        ELSE << a1, a2, a3, a4 >>

\* What a reader must not see of Event e: the game shown as over (by status or
\* by is_complete) while e has no winner, or while the parent of e does not
\* hold that winner in the slot of e
Torn(S, e) ==
    LET ev == S.events[e]
    IN  /\ ev.is_complete \/ ev.status = "STATUS_FINAL"
        /\ \/ ev.winning_participant = None
           \/ /\ ev.parent # None
              /\ ev.winning_participant #
                   (IF S.events[ev.parent].left = e
                    THEN S.events[ev.parent].home_participant
                    ELSE S.events[ev.parent].away_participant)

\* C19: when the update thread applies a record to an Event in a poll pass
\* and the update runs to its end, a reader sees the Event torn at none of
\* the points between two assignments of the update; and the events to
\* process do not change between two steps of the scan.
C19_NoTornRead ==
    /\ [](\A e \in EventRefs :
           (pc = "scan" /\ Visiting(e) /\ Determined(e) /\ ~Torn(Heap, e)) =>
             \A rec \in FeedRecords(matchup_tuple(Heap, e)) :
               ~update(Heap, e, rec).raised =>
                 \A i \in DOMAIN update_points(Heap, e, rec) :
                   ~Torn(update_points(Heap, e, rec)[i], e))
    /\ [][(pc = "scan" /\ pc' = "scan") =>
            events_to_process' = events_to_process]_vars

\* Has the winner of Event e been handed to its parent
Propagated(e) ==
    events[e].parent # None =>
      events[e].winning_participant =
        (IF events[events[e].parent].left = e
         THEN events[events[e].parent].home_participant
         ELSE events[events[e].parent].away_participant)

\* C20: when a poll iteration has ended (the thread is in its sleep) and when
\* the backfill has returned, the events to process are the Events that are
\* not complete; and an Event that a step removes from the events to process
\* has, after that step, a winner that its parent holds.
C20_FrontierIsIncompleteEvents ==
    /\ [](pc \in {"sleep", "ready"} =>
            Refs(events_to_process) = {e \in EventRefs : ~events[e].is_complete})
    /\ [][pc # "new" =>
            \A e \in Refs(events_to_process) \ Refs(events_to_process') :
              /\ events'[e].is_complete
              /\ events'[e].winning_participant # None
              /\ Propagated(e)']_vars

C22_BackfillAsLivePass ==
    [][pc = "backfill" =>
         /\ pc' \in {"backfill", "ready"}
         /\ \A e \in Refs(events_to_process) \ Refs(events_to_process') :
              events'[e].is_complete
         /\ \A e \in Refs(events_to_process') :
              Visiting(e) => ~events'[e].is_complete]_vars

\* C23: the turn of the scan that raises ends the pass: no Event but the one
\* visited changes in it, the Events before it in the scan order that are
\* complete are taken out of the events to process and the others before it
\* stay, the visited Event and those after it stay, and successfully_updating
\* is false.
C23_RaiseAbandonsRestOfPass ==
    [][(pc = "scan" /\ scan_pos <= Len(events_to_process) /\ pc' = "sleep") =>
         /\ \A i \in 1..Len(events_to_process) :
              i # scan_pos =>
                events'[events_to_process[i]] = events[events_to_process[i]]
         /\ \A i \in 1..(scan_pos - 1) :
              events[events_to_process[i]].is_complete
                <=> events_to_process[i] \notin Refs(events_to_process')
         /\ \A i \in scan_pos..Len(events_to_process) :
              events_to_process[i] \in Refs(events_to_process')
         /\ ~successfully_updating']_vars

\* A pass has ended on an exception raised for an Event, after another Event
\* completed in it: that one has left the events to process
C23_Witness ==
    /\ pc = "sleep"
    /\ ~successfully_updating
    /\ fetch_error = "none"
    /\ last_attempted_update = clock
    /\ \E e \in Refs(events_to_remove) :
         /\ Resolved(e)
         /\ e \notin Refs(events_to_process)
    /\ events_to_process # << >>

\* C24: between two turns of the scan the events to process do not change, so
\* every Event visited in the pass and complete is still among them, listed in
\* events_to_remove; the step that ends the scan takes out the Events of
\* events_to_remove, all at once, and no other.
C24_NoRemovalDuringScan ==
    /\ [][pc = "scan" =>
            /\ pc' = "scan" => events_to_process' = events_to_process
            /\ pc' = "sleep" =>
                 events_to_process' =
                   SelectSeq(events_to_process,
                             LAMBDA f : f \notin Refs(events_to_remove))]_vars
    /\ [](pc = "scan" =>
            /\ Refs(events_to_remove) \subseteq Refs(events_to_process)
            /\ \A i \in 1..Len(events_to_process) :
                 (i < scan_pos /\ events[events_to_process[i]].is_complete) =>
                   events_to_process[i] \in Refs(events_to_remove))

\* The scan is under way and an Event it has completed is still among the
\* events to process
C24_Witness ==
    /\ pc = "scan"
    /\ \E e \in Refs(events_to_remove) :
         /\ Resolved(e)
         /\ e \in Refs(events_to_process)

\* C25: the cache holds no absent spread; an entry of the cache stays, with
\* its value, in every later state; and whenever the cache changes, the
\* file holds the new cache after the same step, so that the file is the
\* cache as soon as the cache has an entry.
C25_CacheAppendOnly ==
    /\ [](\A m \in DOMAIN matchup_to_spread : matchup_to_spread[m] # NoSpread)
    /\ [](IF DOMAIN matchup_to_spread = {}
          THEN ~spread_file.exists
          ELSE cache_spread /\ spread_file.exists
                 /\ spread_file.data = matchup_to_spread)
    /\ [][/\ \A m \in DOMAIN matchup_to_spread :
               /\ m \in DOMAIN matchup_to_spread'
               /\ matchup_to_spread'[m] = matchup_to_spread[m]
          /\ matchup_to_spread' # matchup_to_spread =>
               /\ spread_file'.exists
               /\ spread_file'.data = matchup_to_spread']_vars

\* The cache holds the spreads of two matchups, and so does the file
C25_Witness ==
    /\ Cardinality(DOMAIN matchup_to_spread) = 2
    /\ spread_file.exists
    /\ spread_file.data = matchup_to_spread

\* C26: an Event of a round above the first holds as home participant nobody
\* or the winner of its left child, and as away participant nobody or the
\* winner of its right child; the step that gives an Event its winner puts
\* that winner in the parent's home_participant if the Event is the parent's
\* left child, in its away_participant otherwise, and leaves the other one.
C26_SlotsFromChildren ==
    /\ [](\A e \in EventRefs : events[e].round > 1 =>
            /\ events[e].home_participant
                 \in {None, events[events[e].left].winning_participant}
            /\ events[e].away_participant
                 \in {None, events[events[e].right].winning_participant})
    /\ [][\A e \in EventRefs :
            (e \in DOMAIN events' /\ events[e].winning_participant = None
               /\ events'[e].winning_participant # None
               /\ events[e].parent # None) =>
              LET p == events[e].parent
              IN  IF events[p].left = e
                  THEN /\ events'[p].home_participant = events'[e].winning_participant
                       /\ events'[p].away_participant = events[p].away_participant
                  ELSE /\ events[p].right = e
                       /\ events'[p].away_participant = events'[e].winning_participant
                       /\ events'[p].home_participant = events[p].home_participant]_vars

\* An Event holds both participants, each the winner of a child, the left
\* child having been won by its away participant
C26_Witness ==
    \E e \in EventRefs :
      /\ events[e].round > 1
      /\ events[e].home_participant # None
      /\ events[e].away_participant # None
      /\ events[e].home_participant = events[events[e].left].winning_participant
      /\ events[e].away_participant = events[events[e].right].winning_participant
      /\ events[e].home_participant = events[events[e].left].away_participant

\* C27: the step that ends a poll iteration sets last_attempted_update to the
\* time of the iteration; calls_to_espn grows by one in the iteration when the
\* fetch succeeded (the scan was reached) and stays when the fetch failed;
\* last_successful_update changes only in the step that ends an iteration
\* without an exception.
C27_CountersPerIteration ==
    [][/\ (pc \in {"fetch", "scan"} /\ pc' = "sleep") =>
            last_attempted_update' = clock'
       /\ (pc = "scan" /\ pc' = "sleep") => calls_to_espn' = calls_to_espn + 1
       /\ (pc = "scan" /\ pc' = "scan") => calls_to_espn' = calls_to_espn
       /\ (pc = "fetch" /\ pc' = "sleep") => calls_to_espn' = calls_to_espn
       /\ last_successful_update' # last_successful_update =>
            /\ pc = "scan" /\ pc' = "sleep"
            /\ successfully_updating'
            /\ last_successful_update' = clock]_vars

\* The number of queries of the odds feed a step makes
Queries == calls_to_odds_api' - calls_to_odds_api

\* C28: in a visit of a determined Event e that does not raise, in a poll pass
\* or in the backfill: when e held no spread and the visit completes it, the
\* spread was resolved first (e holds one, and its winner); when the
\* visit moves the status of e to STATUS_IN_PROGRESS, the spread is resolved
\* after the record was applied (spread_final is set); when it does not and e
\* held a spread, nothing is resolved.  Without the cache every resolution is
\* a query: one for an Event without a spread whose record is applied, one
\* more when the status moves to STATUS_IN_PROGRESS, and no other.
C28_ResolutionOrder ==
    [][\A e \in EventRefs :
         (Visiting(e) /\ Determined(e) /\ pc' \in {"scan", "backfill"}) =>
           LET started == events[e].status # "STATUS_IN_PROGRESS"
                            /\ events'[e].status = "STATUS_IN_PROGRESS"
               applied == events'[e].status # events[e].status
               lacking == events[e].spread = NoSpread
           IN  /\ (lacking /\ ~events[e].is_complete /\ events'[e].is_complete) =>
                    /\ events'[e].spread # NoSpread
                    /\ events'[e].winning_participant # None
               /\ started => events'[e].spread_final
               /\ (~started /\ ~lacking) =>
                    /\ Queries = 0
                    /\ events'[e].spread = events[e].spread
                    /\ events'[e].spread_final = events[e].spread_final
               /\ Queries <= (IF lacking THEN 1 ELSE 0) + (IF started THEN 1 ELSE 0)
               /\ ~cache_spread =>
                    /\ started => Queries >= 1
                    /\ (lacking /\ applied) =>
                         Queries = 1 + (IF started THEN 1 ELSE 0)]_vars

\* Without the cache, a game seen for the first time when under way: two
\* queries were made for it, and no other Event has been touched
C28_Witness ==
    /\ ~cache_spread
    /\ calls_to_odds_api = 2
    /\ pc \in {"scan", "backfill"}
    /\ \E e \in EventRefs :
         /\ events[e].status = "STATUS_IN_PROGRESS"
         /\ events[e].spread_final
         /\ \A f \in EventRefs \ {e} : events[f].status = "TBD"

\* C29: when a poll iteration has ended and when the backfill has returned,
\* every Event whose status is STATUS_IN_PROGRESS or STATUS_FINAL and that
\* holds a spread has spread_final set.
C29_SpreadFinalOnceStarted ==
    (pc \in {"sleep", "ready"}) =>
      \A e \in EventRefs :
        (events[e].status \in {"STATUS_IN_PROGRESS", "STATUS_FINAL"}
           /\ events[e].spread # NoSpread) => events[e].spread_final

\* The place of a status in the order TBD, SCHEDULED, IN_PROGRESS, FINAL
StatusRank(status) ==
    CASE status = "TBD" -> 0
      [] status = "STATUS_SCHEDULED" -> 1
      [] status = "STATUS_IN_PROGRESS" -> 2
      [] status = "STATUS_FINAL" -> 3

\* C30: no step moves the status of an Event to an earlier place of that order.
C30_StatusMovesForward ==
    [][\A e \in EventRefs :
         e \in DOMAIN events' =>
           StatusRank(events'[e].status) >= StatusRank(events[e].status)]_vars

\* C31: in the step that gives an Event its winner, when the team the winner
\* held before the step is the team the feed flagged as winner (the
\* winning_team_code the Event records), no participant's team changes.
C31_NoReassignmentWhenWinnersCoincide ==
    [][\A e \in EventRefs :
         (e \in DOMAIN events' /\ events[e].winning_participant = None
            /\ events'[e].winning_participant # None
            /\ code_name(team[events'[e].winning_participant])
                 = events'[e].winning_team_code) =>
           team' = team]_vars

\* An Event of the first round won by its away participant, whose team is the
\* team flagged by the feed: every participant still has the team it came with
C31_Witness ==
    /\ \E e \in EventRefs :
         /\ Resolved(e)
         /\ events[e].round = 1
         /\ events[e].winning_participant = events[e].away_participant
         /\ events[e].winning_team_code
              = code_name(team[events[e].winning_participant])
    /\ \A q \in DOMAIN team : team[q] = q

\* The number of bookmakers in the odds records a resolved spread is examined on
MaxBooks == 3

\* The outcome of a bookmaker's market that carries the negative point: the
\* favorite's side of spread['outcomes']
favorite_outcome(market) ==
    IF market.outcomes[1].point < 0 THEN market.outcomes[1] ELSE market.outcomes[2]

\* The record game of spreads_past['data'] for the teams t[1] (home) and t[2]
\* (away), with the markets bs of its bookmakers
OddsGame(t, bs) ==
    [home_team |-> odds_api_name(t[1]), away_team |-> odds_api_name(t[2]),
     bookmakers |-> bs]

\* C32: for a determined Event, not complete, with home team h and away team a, and an answer
\* of the odds feed that holds their game in either orientation with the
\* markets of one to MaxBooks bookmakers who all favor the same team fav: the
\* spread get_spread returns has exactly the two teams' identifiers as keys,
\* gives fav the mode of the bookmakers' points for fav, a negative number,
\* and gives the other team the opposite number; for an answer that holds no
\* game of the two teams it returns no spread.
C32_FavoriteGetsNegativeMode ==
    \A e \in EventRefs :
      (Determined(e) /\ ~events[e].is_complete /\ pc \in {"constructed", "ready"}) =>
        \A h \in {team[events[e].home_participant]},
           a \in {team[events[e].away_participant]} :
          /\ \A resp \in {[error |-> FALSE, data |-> << >>],
                          [error |-> FALSE, data |-> <<OddsGame(<<h, 0>>, << >>)>>]} :
               get_spread(Heap, e, resp).spread = NoSpread
          /\ \A t \in {<<h, a>>, <<a, h>>}, fav \in {h, a},
                bs \in SeqsUpTo(Markets(h, a), MaxBooks) :
               (\A i \in 1..Len(bs) :
                  favorite_outcome(bs[i]).name = odds_api_name(fav)) =>
                 \A spread \in {get_spread(Heap, e,
                                   [error |-> FALSE,
                                    data |-> <<OddsGame(t, bs)>>]).spread},
                    point \in {mode([i \in 1..Len(bs) |->
                                       favorite_outcome(bs[i]).point])} :
                   /\ spread # NoSpread
                   /\ DOMAIN spread = {odds_api_name(h), odds_api_name(a)}
                   /\ point < 0
                   /\ spread[odds_api_name(fav)] = point
                   /\ spread[odds_api_name(IF fav = h THEN a ELSE h)] = 0 - point

\* C33: an Event that holds a spread and has no winner yet holds the same
\* spread after every step.
C33_SpreadKeptUntilWinner ==
    [][\A e \in EventRefs :
         (e \in DOMAIN events' /\ events[e].spread # NoSpread
            /\ events[e].winning_participant = None) =>
           events'[e].spread = events[e].spread]_vars

\* C34: an Event that is complete with a winner has, after every step, the
\* teams its home and away participants had before it, hence the same
\* matchup, and its winner's team is still the team of its winning_team_code.
C34_CompletedMatchupFrozen ==
    [][\A e \in EventRefs :
         (e \in DOMAIN events' /\ Resolved(e)) =>
           /\ team'[events'[e].home_participant] = team[events[e].home_participant]
           /\ team'[events'[e].away_participant] = team[events[e].away_participant]
           /\ matchup_tuple([events |-> events', team |-> team'], e)
                = matchup_tuple(Heap, e)
           /\ (code_name(team[events[e].winning_participant])
                 = events[e].winning_team_code) =>
                (code_name(team'[events'[e].winning_participant])
                   = events'[e].winning_team_code)]_vars

\* The place of Event e among the events to process (0 when it is not there)
FrontierIndex(q, e) ==
    IF e \in Refs(q) THEN CHOOSE i \in 1..Len(q) : q[i] = e ELSE 0

\* C35 (corrected): the events to process are in the order of construction
\* (event_id grows along the deque), so a child that is there stands before
\* its parent; no step adds an Event to them; and in the step of a poll pass
\* that makes the parent of the visited Event determined, the parent stands
\* after the visited Event, at a place the scan has still to reach (it is
\* visited in the same pass unless an exception ends the pass before).
C35_FrontierInConstructionOrder ==
    /\ [](\A i, j \in 1..Len(events_to_process) :
            i < j => events[events_to_process[i]].event_id
                       < events[events_to_process[j]].event_id)
    /\ [](\A e \in Refs(events_to_process) :
            (events[e].parent # None /\ events[e].parent \in Refs(events_to_process)) =>
              FrontierIndex(events_to_process, e)
                < FrontierIndex(events_to_process, events[e].parent))
    /\ [][pc # "new" => Refs(events_to_process') \subseteq Refs(events_to_process)]_vars
    /\ [][\A e \in EventRefs :
            (pc = "scan" /\ Visiting(e) /\ events[e].parent # None
               /\ ~Determined(events[e].parent)
               /\ matchup_determined(Heap', events[e].parent)) =>
              /\ events_to_process' = events_to_process
              /\ FrontierIndex(events_to_process, events[e].parent) > scan_pos
              /\ pc' = "scan" => scan_pos' <= FrontierIndex(events_to_process,
                                                            events[e].parent)]_vars

\* In one poll pass a child has completed and its parent, determined by it,
\* has been visited and given a status
C35_Witness ==
    /\ pc = "scan"
    /\ \E e \in Refs(events_to_remove) :
         /\ Resolved(e)
         /\ events[e].parent # None
         /\ Determined(events[e].parent)
         /\ events[events[e].parent].status # "TBD"
         /\ FrontierIndex(events_to_process, events[e].parent) < scan_pos
         /\ \E f \in Refs(events_to_remove) \ {e} :
              events[f].parent = events[e].parent

\* C35 as stated: besides the order, when a poll pass ends,
\* every Event that became determined in that pass (one of its children
\* completed in the pass) has been visited in it.
C35_ParentVisitedInSamePass ==
    /\ C35_FrontierInConstructionOrder
    /\ [][(pc = "scan" /\ pc' = "sleep") =>
            \A e \in Refs(events_to_remove) :
              (Resolved(e) /\ events[e].parent # None
                 /\ Determined(events[e].parent)) =>
                FrontierIndex(events_to_process, events[e].parent) <= scan_pos]_vars

=============================================================================
